---------------------------- MODULE Spec2Model ----------------------------
(***************************************************************************)
(* SuperRelay trusted application (ta/super_relay_ta/super_relay_ta.c):    *)
(* the fixed-capacity key store, the command handlers and the session      *)
(* and telemetry counters, as a state machine.                             *)
(*                                                                         *)
(* Byte arrays are modelled at the granularity the code addresses them:    *)
(*   - a key_id array (char[64]) is the sequence of its bytes before the   *)
(*     first NUL (every array the code fills is zero after that byte);     *)
(*   - a private key (32 bytes) is one scalar, 0 being the all-zero array; *)
(*   - a public key (64 bytes) is the pair <<X, Y>> of its 32-byte halves; *)
(*   - a digest (32 bytes) is the pair <<bytes 0..11, bytes 12..31>>;      *)
(*   - an address (20 bytes) is one word, 0 being the all-zero array.      *)
(***************************************************************************)
EXTENDS Integers, Sequences, FiniteSets, TLC

(***************************************************************************)
(* Bounds of the model.                                                    *)
(***************************************************************************)
\* Capacity of the two key tables.  super_relay_ta.h:71 sets SR_MAX_KEYS to
\* 16; the tables are scaled down, every check of the code against the
\* capacity is kept as written.
SR_MAX_KEYS == 2
\* The clock runs from 0 to MaxTime.
MaxTime == 1
\* g_operation_count is capped at MaxOps.
MaxOps == 3
\* g_session_count is capped at MaxSessions.
MaxSessions == 1

(***************************************************************************)
(* Program constants.                                                      *)
(***************************************************************************)
SR_MAX_KEY_ID_SIZE == 64
SR_SECP256K1_PUBLIC_KEY_SIZE == 64
SR_SECP256K1_PRIVATE_KEY_SIZE == 32
SR_SECP256K1_SIGNATURE_SIZE == 64
SR_MESSAGE_HASH_SIZE == 32
SR_ETHEREUM_ADDRESS_SIZE == 20

TA_SUPER_RELAY_CMD_GENERATE_KEY == 0
TA_SUPER_RELAY_CMD_IMPORT_KEY == 1
TA_SUPER_RELAY_CMD_SIGN_MESSAGE == 2
TA_SUPER_RELAY_CMD_GET_PUBLIC_KEY == 3
TA_SUPER_RELAY_CMD_DELETE_KEY == 4
TA_SUPER_RELAY_CMD_LIST_KEYS == 5
TA_SUPER_RELAY_CMD_GET_VERSION == 6
TA_SUPER_RELAY_CMD_HEALTH_CHECK == 7

SR_KEY_TYPE_ECDSA_SECP256K1 == 0
SR_KEY_TYPE_ED25519 == 1
SR_KEY_TYPE_MAX == 2

SR_KEY_STATUS_ACTIVE == 0

SR_SUCCESS == 0

\* sizeof of the result structures (ILP32/LP64 layout of super_relay_ta.h).
SizeofKeyInfo == 112
SizeofKeyEntry == 288
SizeofSignatureResult == 72
SizeofPublicKeyResult == 96
SizeofKeyListResult == 4 + 4 + SR_MAX_KEYS * SizeofKeyInfo
SizeofVersionInfo == 76
SizeofHealthResult == 24

\* The uint32_t counters (g_key_count, g_session_count, g_operation_count,
\* usage_count) are plain integers here: the bounds keep them far below 2^32,
\* which no run of the model reaches.

VARIABLES
    g_keys,             \* public-metadata table: slot -> sr_key_info_t
    g_key_storage,      \* full-record table: slot -> sr_key_entry_t
    g_key_count,
    g_session_count,
    g_operation_count,
    g_start_time,
    now,                \* TEE_GetSystemTime, seconds
    phase,              \* "Ready" after TA_CreateEntryPoint, "Destroyed" after TA_DestroyEntryPoint
    cmd,                \* the entry point that has just returned, or "none"
    res,                \* its TEE_Result
    out,                \* what it left in its output parameter
    tee_calls,          \* the primitive-provider operations it invoked, in order
    emsg,               \* the error messages it traced (EMSG), in order
    h_sessions,         \* history: net of session opens and closes, floored at zero
    h_created,          \* history: the successful generate_key calls in order, each with
                        \* the key_id it was given and the address it returned
    h_signs             \* history: slot -> successful sign_message calls made with its key

vars == <<g_keys, g_key_storage, g_key_count, g_session_count, g_operation_count,
          g_start_time, now, phase, cmd, res, out, tee_calls, emsg,
          h_sessions, h_created, h_signs>>


(***************************************************************************)
(* C strings.                                                              *)
(***************************************************************************)
NUL == 0

\* Caller memory at the key_id memref: two bytes, each NUL or the letter 1;
\* the memory behind them reads as NUL.
Buffers == {<<NUL, NUL>>, <<NUL, 1>>, <<1, NUL>>, <<1, 1>>}

\* Number of bytes before the first NUL among the first n bytes, or n; the
\* memory behind the modelled bytes reads as NUL.
strnlen(buf, n) ==
    LET m == IF n < Len(buf) THEN n ELSE Len(buf)
    IN  IF \A i \in 1..m : buf[i] # NUL THEN m
        ELSE (CHOOSE i \in 1..m : buf[i] = NUL /\ \A j \in 1..(i - 1) : buf[j] # NUL) - 1

\* The bytes a string function with limit n reads from buf.
StrN(buf, n) == SubSeq(buf, 1, strnlen(buf, n))

\* strncmp(a, b, n) == 0
strncmp_eq(a, b, n) == StrN(a, n) = StrN(b, n)

\* strncpy(dst, src, n); dst[n] = '\0' into a zeroed array: the array's string.
strncpy_term(src, n) == StrN(src, n)

(***************************************************************************)
(* Records of the two tables.                                              *)
(***************************************************************************)
Slots == 0..(SR_MAX_KEYS - 1)

ZeroAddress == 0

ZeroInfo ==
    [key_id |-> <<>>, key_type |-> 0, status |-> 0, created_time |-> 0,
     last_used_time |-> 0, usage_count |-> 0, ethereum_address |-> ZeroAddress]

ZeroEntry ==
    [key_id |-> <<>>, key_type |-> 0, private_key |-> 0, public_key |-> <<0, 0>>,
     private_key_len |-> 0, public_key_len |-> 0, info |-> ZeroInfo]

(***************************************************************************)
(* The primitive provider (TEE internal API).                              *)
(***************************************************************************)
\* The private scalar TEE_GenerateKey draws for the record of a slot: fresh
\* for every record, never zero.
FreshScalar(slot) == slot + 1

\* The public point of private scalar d, as <<X, Y>>.
ECPublic(d) == <<10 + d, 20 + d>>

\* The 256-bit digest of a 64-byte public key, as <<bytes 0..11, bytes 12..31>>.
SHA256(pk) == <<100 + pk[1] + 2 * pk[2], 200 + 2 * pk[1] + pk[2]>>

\* The ECDSA signature (r || s) of digest h under private scalar d.
ECDSASign(d, h) == 1000 + 10 * d + h

\* Outcomes of the provider during one generate_key: the operation that fails
\* (or "none"), its code, and whether the digest works.  Every operation can
\* fail; an allocation fails with either of two codes.
GenStages == {"none", "alloc", "generate", "private", "public_x", "public_y"}

GenOutcomes ==
    [fail : {"none"}, err : {"TEE_SUCCESS"}, digest_ok : BOOLEAN]
    \cup [fail : GenStages \ {"none"}, err : {"TEE_ERROR_GENERIC"}, digest_ok : {TRUE}]
    \cup [fail : {"alloc"}, err : {"TEE_ERROR_OUT_OF_MEMORY"}, digest_ok : {TRUE}]

\* Outcomes of the provider during one sign_message.
SignStages == {"none", "alloc", "populate", "alloc_op", "set_key", "sign"}

SignOutcomes ==
    [fail : {"none"}, err : {"TEE_SUCCESS"}]
    \cup [fail : SignStages \ {"none"}, err : {"TEE_ERROR_GENERIC"}]
    \cup [fail : {"alloc"}, err : {"TEE_ERROR_OUT_OF_MEMORY"}]


(***************************************************************************)
(* Utility functions.                                                      *)
(***************************************************************************)
get_current_time == now

\* The first slot below g_key_count whose stored key_id compares equal to
\* the caller's buffer read as a string, or -1.
find_key_index(key_id) ==
    IF \E i \in 0..(g_key_count - 1) :
            strncmp_eq(g_key_storage[i].key_id, key_id, SR_MAX_KEY_ID_SIZE)
    THEN CHOOSE i \in 0..(g_key_count - 1) :
            /\ strncmp_eq(g_key_storage[i].key_id, key_id, SR_MAX_KEY_ID_SIZE)
            /\ \A j \in 0..(i - 1) :
                    ~strncmp_eq(g_key_storage[j].key_id, key_id, SR_MAX_KEY_ID_SIZE)
    ELSE -1

\* The address left in the record: bytes 12..31 of the digest, or zeroes when
\* the digest operation fails.
derive_ethereum_address(public_key, digest_ok) ==
    IF ~digest_ok THEN ZeroAddress ELSE SHA256(public_key)[2]

(***************************************************************************)
(* Cryptographic functions.  Each yields the TEE_Result, what it left in   *)
(* the record or result, and the provider operations it invoked.           *)
(***************************************************************************)
generate_secp256k1_keypair(key_entry, priv, tee) ==
    LET pk == ECPublic(priv)
        e1 == [key_entry EXCEPT !.private_key = priv,
                                !.private_key_len = SR_SECP256K1_PRIVATE_KEY_SIZE]
        e2 == [e1 EXCEPT !.public_key = <<pk[1], 0>>]
        e3 == [e2 EXCEPT !.public_key = pk, !.public_key_len = 32 + 32]
        e4 == [e3 EXCEPT !.info.ethereum_address =
                            derive_ethereum_address(e3.public_key, tee.digest_ok)]
    IN  CASE tee.fail = "alloc" ->
                [res |-> tee.err, entry |-> key_entry,
                 msgs |-> <<"Failed to allocate ECDSA keypair object">>,
                 calls |-> <<"AllocateTransientObject">>]
          [] tee.fail = "generate" ->
                [res |-> tee.err, entry |-> key_entry,
                 msgs |-> <<"Failed to generate ECDSA keypair">>,
                 calls |-> <<"AllocateTransientObject", "GenerateKey",
                             "FreeTransientObject">>]
          [] tee.fail = "private" ->
                [res |-> tee.err, entry |-> key_entry,
                 msgs |-> <<"Failed to extract private key">>,
                 calls |-> <<"AllocateTransientObject", "GenerateKey",
                             "GetObjectBufferAttribute", "FreeTransientObject">>]
          [] tee.fail = "public_x" ->
                [res |-> tee.err, entry |-> e1,
                 msgs |-> <<"Failed to extract public key X">>,
                 calls |-> <<"AllocateTransientObject", "GenerateKey",
                             "GetObjectBufferAttribute", "GetObjectBufferAttribute",
                             "FreeTransientObject">>]
          [] tee.fail = "public_y" ->
                [res |-> tee.err, entry |-> e2,
                 msgs |-> <<"Failed to extract public key Y">>,
                 calls |-> <<"AllocateTransientObject", "GenerateKey",
                             "GetObjectBufferAttribute", "GetObjectBufferAttribute",
                             "GetObjectBufferAttribute", "FreeTransientObject">>]
          [] OTHER ->
                [res |-> "TEE_SUCCESS", entry |-> e4,
                 msgs |-> IF tee.digest_ok THEN <<>>
                          ELSE <<"Failed to hash public key for address derivation">>,
                 calls |-> <<"AllocateTransientObject", "GenerateKey",
                             "GetObjectBufferAttribute", "GetObjectBufferAttribute",
                             "GetObjectBufferAttribute", "DigestDoFinal",
                             "FreeTransientObject">>]

ZeroSignatureResult == [signature |-> 0, signature_len |-> 0, recovery_id |-> 0]

sign_message_ecdsa(key_entry, message_hash, tee) ==
    CASE tee.fail = "alloc" ->
            [res |-> tee.err, result |-> ZeroSignatureResult,
             msgs |-> <<"Failed to allocate ECDSA keypair">>,
             calls |-> <<"AllocateTransientObject">>]
      [] tee.fail = "populate" ->
            [res |-> tee.err, result |-> ZeroSignatureResult,
             msgs |-> <<"Failed to populate ECDSA keypair">>,
             calls |-> <<"AllocateTransientObject", "PopulateTransientObject",
                         "FreeTransientObject">>]
      [] tee.fail = "alloc_op" ->
            [res |-> tee.err, result |-> ZeroSignatureResult,
             msgs |-> <<"Failed to allocate ECDSA operation">>,
             calls |-> <<"AllocateTransientObject", "PopulateTransientObject",
                         "AllocateOperation", "FreeTransientObject">>]
      [] tee.fail = "set_key" ->
            [res |-> tee.err, result |-> ZeroSignatureResult,
             msgs |-> <<"Failed to set operation key">>,
             calls |-> <<"AllocateTransientObject", "PopulateTransientObject",
                         "AllocateOperation", "SetOperationKey", "FreeOperation",
                         "FreeTransientObject">>]
      [] tee.fail = "sign" ->
            [res |-> tee.err, result |-> ZeroSignatureResult,
             msgs |-> <<"Failed to sign message">>,
             calls |-> <<"AllocateTransientObject", "PopulateTransientObject",
                         "AllocateOperation", "SetOperationKey", "AsymmetricSignDigest",
                         "FreeOperation", "FreeTransientObject">>]
      [] OTHER ->
            [res |-> "TEE_SUCCESS", msgs |-> <<>>,
             result |-> [signature |-> ECDSASign(key_entry.private_key, message_hash),
                         signature_len |-> SR_SECP256K1_SIGNATURE_SIZE,
                         recovery_id |-> 0],
             calls |-> <<"AllocateTransientObject", "PopulateTransientObject",
                         "AllocateOperation", "SetOperationKey", "AsymmetricSignDigest",
                         "FreeOperation", "FreeTransientObject">>]


(***************************************************************************)
(* Command parameters.                                                     *)
(***************************************************************************)
\* TEE_PARAM_TYPES(...) of the four parameter slots.
PT_GENERATE_KEY == <<"MEMREF_INPUT", "VALUE_INPUT", "MEMREF_OUTPUT", "NONE">>

PT_SIGN_MESSAGE == <<"MEMREF_INPUT", "MEMREF_INPUT", "MEMREF_OUTPUT", "NONE">>

PT_GET_PUBLIC_KEY == <<"MEMREF_INPUT", "MEMREF_OUTPUT", "NONE", "NONE">>

PT_OUTPUT_ONLY == <<"MEMREF_OUTPUT", "NONE", "NONE", "NONE">>

ParamTypes == {PT_GENERATE_KEY, PT_SIGN_MESSAGE, PT_GET_PUBLIC_KEY, PT_OUTPUT_ONLY}

\* Declared sizes of the key_id memref: empty, shorter than the modelled
\* memory, the longest accepted, and too long.
KeyIdLens == {0, 1, SR_MAX_KEY_ID_SIZE - 1, SR_MAX_KEY_ID_SIZE}

\* params[1].value.a of generate_key.
KeyTypes == {SR_KEY_TYPE_ECDSA_SECP256K1, SR_KEY_TYPE_ED25519, SR_KEY_TYPE_MAX}

\* Contents and declared sizes of the message_hash memref.
MsgHashes == {1}

HashLens == {SR_MESSAGE_HASH_SIZE - 1, SR_MESSAGE_HASH_SIZE}

\* Declared sizes of an output memref around the size needed.
OutSizes(needed) == {needed - 1, needed}

\* The provider outcome in which every operation succeeds.
GenWorks == {t \in GenOutcomes : t.fail = "none" /\ t.digest_ok}

SignWorks == {t \in SignOutcomes : t.fail = "none"}

\* A key_id memref that is well formed: the string "11", declared with the
\* longest accepted size.
GoodKeyId == <<1, 1>>

\* The generate_key requests of the model.  At most one of shape, declared
\* length, key type, output size and provider outcome departs from a
\* well-formed request (a request of another shape also comes with a
\* declared length that is refused); the key_id buffer is any of Buffers wherever the
\* handler may come to read it.
GenRequests ==
    [param_types : ParamTypes, key_id : {GoodKeyId},
     key_id_len : {SR_MAX_KEY_ID_SIZE - 1, SR_MAX_KEY_ID_SIZE},
     value_a : {SR_KEY_TYPE_ECDSA_SECP256K1},
     out_size : {SR_ETHEREUM_ADDRESS_SIZE}, tee : GenWorks]
    \cup [param_types : {PT_GENERATE_KEY}, key_id : Buffers, key_id_len : KeyIdLens,
          value_a : {SR_KEY_TYPE_ECDSA_SECP256K1},
          out_size : {SR_ETHEREUM_ADDRESS_SIZE}, tee : GenWorks]
    \cup [param_types : {PT_GENERATE_KEY}, key_id : Buffers,
          key_id_len : {SR_MAX_KEY_ID_SIZE - 1}, value_a : KeyTypes,
          out_size : {SR_ETHEREUM_ADDRESS_SIZE}, tee : GenWorks]
    \cup [param_types : {PT_GENERATE_KEY}, key_id : {GoodKeyId},
          key_id_len : {SR_MAX_KEY_ID_SIZE - 1},
          value_a : {SR_KEY_TYPE_ECDSA_SECP256K1},
          out_size : {SR_ETHEREUM_ADDRESS_SIZE}, tee : GenOutcomes]
    \cup [param_types : {PT_GENERATE_KEY}, key_id : {GoodKeyId},
          key_id_len : {SR_MAX_KEY_ID_SIZE - 1},
          value_a : {SR_KEY_TYPE_ECDSA_SECP256K1},
          out_size : OutSizes(SR_ETHEREUM_ADDRESS_SIZE),
          tee : {t \in GenOutcomes : t.fail = "none"}]

\* The sign_message requests of the model, likewise.
SignRequests ==
    [param_types : ParamTypes, key_id : {GoodKeyId},
     key_id_len : {SR_MAX_KEY_ID_SIZE - 1, SR_MAX_KEY_ID_SIZE},
     message_hash : MsgHashes,
     hash_len : {SR_MESSAGE_HASH_SIZE}, out_size : {SizeofSignatureResult},
     tee : SignWorks]
    \cup [param_types : {PT_SIGN_MESSAGE}, key_id : Buffers, key_id_len : KeyIdLens,
          message_hash : MsgHashes, hash_len : {SR_MESSAGE_HASH_SIZE},
          out_size : {SizeofSignatureResult}, tee : SignWorks]
    \cup [param_types : {PT_SIGN_MESSAGE}, key_id : Buffers,
          key_id_len : {SR_MAX_KEY_ID_SIZE - 1}, message_hash : MsgHashes,
          hash_len : HashLens, out_size : OutSizes(SizeofSignatureResult),
          tee : SignWorks]
    \cup [param_types : {PT_SIGN_MESSAGE}, key_id : {GoodKeyId, <<1, NUL>>},
          key_id_len : {SR_MAX_KEY_ID_SIZE - 1}, message_hash : MsgHashes,
          hash_len : {SR_MESSAGE_HASH_SIZE}, out_size : {SizeofSignatureResult},
          tee : SignOutcomes]

\* The get_public_key requests of the model, likewise.
GetPublicKeyRequests ==
    [param_types : ParamTypes, key_id : {GoodKeyId},
     key_id_len : {SR_MAX_KEY_ID_SIZE - 1, SR_MAX_KEY_ID_SIZE},
     out_size : {SizeofPublicKeyResult}]
    \cup [param_types : {PT_GET_PUBLIC_KEY}, key_id : Buffers, key_id_len : KeyIdLens,
          out_size : {SizeofPublicKeyResult}]
    \cup [param_types : {PT_GET_PUBLIC_KEY}, key_id : Buffers,
          key_id_len : {SR_MAX_KEY_ID_SIZE - 1},
          out_size : OutSizes(SizeofPublicKeyResult)]

\* An output parameter the command did not write.
Untouched == [kind |-> "untouched"]

(***************************************************************************)
(* TA command implementations.                                             *)
(***************************************************************************)
\* A command that returns without writing any global.
Return(name, code, output, calls, msgs) ==
    /\ cmd' = name
    /\ res' = code
    /\ out' = output
    /\ tee_calls' = calls
    /\ emsg' = msgs
    /\ UNCHANGED <<g_keys, g_key_storage, g_key_count, g_session_count,
                   g_operation_count, g_start_time, now, phase,
                   h_sessions, h_created, h_signs>>

\* Lines 227, 336, 426, 479, 513 and 543: param_types != exp_param_types.
shape_mismatch_unchecked(param_types, exp_param_types) == FALSE
shape_mismatch(param_types, exp_param_types) == param_types # exp_param_types

\* Line 249: the key type is outside the recognized range.
bad_key_type_unchecked(key_type) == FALSE
bad_key_type(key_type) == key_type >= SR_KEY_TYPE_MAX

\* Line 272: the status a record is created with.
new_key_status_inactive == SR_KEY_STATUS_ACTIVE + 1
new_key_status == SR_KEY_STATUS_ACTIVE

\* Lines 310 and 403: g_keys after the metadata of the record of slot i is
\* copied into it.
publish_info_skipped(i, info) == g_keys
publish_info(i, info) == [g_keys EXCEPT ![i] = info]

\* Lines 312, 404, 462 and 496: g_operation_count++.
operation_counted_twice == g_operation_count + 2
operation_counted == g_operation_count + 1

\* Line 233: no slot is left for a new key.
store_full_never == g_key_count > SR_MAX_KEYS + 1
store_full == g_key_count >= SR_MAX_KEYS

cmd_generate_key(param_types, key_id, key_id_len, key_type, out_size, tee) ==
    LET \* lines 260-275: the slot at g_key_count, zeroed and given its metadata
        stored_id == strncpy_term(key_id, key_id_len)
        entry0 == [ZeroEntry EXCEPT
                     !.key_id = stored_id,
                     !.key_type = key_type,
                     !.info = [ZeroInfo EXCEPT
                                 !.key_id = StrN(stored_id, SR_MAX_KEY_ID_SIZE - 1),
                                 !.key_type = key_type,
                                 !.status = new_key_status,
                                 !.created_time = get_current_time,
                                 !.last_used_time = get_current_time,
                                 !.usage_count = 0]]
        \* lines 277-293
        gen == CASE key_type = SR_KEY_TYPE_ECDSA_SECP256K1 ->
                        generate_secp256k1_keypair(entry0, FreshScalar(g_key_count), tee)
                 [] key_type = SR_KEY_TYPE_ED25519 ->
                        [res |-> "TEE_ERROR_NOT_IMPLEMENTED", entry |-> entry0,
                         calls |-> <<>>, msgs |-> <<"Ed25519 not yet implemented">>]
                 [] OTHER ->
                        [res |-> "TEE_ERROR_NOT_SUPPORTED", entry |-> entry0,
                         calls |-> <<>>, msgs |-> <<"Unsupported key type">>]
    IN  IF shape_mismatch(param_types, PT_GENERATE_KEY)
        THEN Return("generate_key", "TEE_ERROR_BAD_PARAMETERS", Untouched, <<>>,
                    <<"Invalid parameter types for generate_key">>)
        ELSE IF store_full
        THEN Return("generate_key", "TEE_ERROR_STORAGE_NO_SPACE", Untouched, <<>>,
                    <<"Maximum number of keys reached">>)
        ELSE IF key_id_len = 0 \/ key_id_len >= SR_MAX_KEY_ID_SIZE
        THEN Return("generate_key", "TEE_ERROR_BAD_PARAMETERS", Untouched, <<>>,
                    <<"Invalid key_id length">>)
        ELSE IF bad_key_type(key_type)
        THEN Return("generate_key", "TEE_ERROR_BAD_PARAMETERS", Untouched, <<>>,
                    <<"Invalid key type">>)
        ELSE IF find_key_index(key_id) >= 0
        THEN Return("generate_key", "SR_ERROR_KEY_ALREADY_EXISTS", Untouched, <<>>,
                    <<"Key already exists">>)
        ELSE \E g \in {gen} :
             IF g.res # "TEE_SUCCESS"
        THEN /\ cmd' = "generate_key"
             /\ res' = g.res
             /\ out' = Untouched
             /\ tee_calls' = g.calls
             /\ emsg' = Append(g.msgs, "Failed to generate keypair")
             /\ g_key_storage' = [g_key_storage EXCEPT ![g_key_count] = g.entry]
             /\ UNCHANGED <<g_keys, g_key_count, g_session_count, g_operation_count,
                            g_start_time, now, phase, h_sessions, h_created, h_signs>>
        ELSE IF out_size < SR_ETHEREUM_ADDRESS_SIZE
        THEN /\ cmd' = "generate_key"
             /\ res' = "TEE_ERROR_SHORT_BUFFER"
             /\ out' = Untouched
             /\ tee_calls' = g.calls
             /\ emsg' = Append(g.msgs, "Output buffer too small for Ethereum address")
             /\ g_key_storage' = [g_key_storage EXCEPT ![g_key_count] = g.entry]
             /\ UNCHANGED <<g_keys, g_key_count, g_session_count, g_operation_count,
                            g_start_time, now, phase, h_sessions, h_created, h_signs>>
        ELSE /\ cmd' = "generate_key"
             /\ res' = "TEE_SUCCESS"
             /\ out' = [kind |-> "address",
                        address |-> g.entry.info.ethereum_address,
                        size |-> SR_ETHEREUM_ADDRESS_SIZE]
             /\ tee_calls' = g.calls
             /\ emsg' = g.msgs
             /\ g_key_storage' = [g_key_storage EXCEPT ![g_key_count] = g.entry]
             /\ g_keys' = publish_info(g_key_count, g.entry.info)
             /\ g_key_count' = g_key_count + 1
             /\ g_operation_count' = operation_counted
             /\ h_created' = Append(h_created,
                                    [key_id |-> StrN(key_id, key_id_len),
                                     address |-> g.entry.info.ethereum_address])
             /\ UNCHANGED <<g_session_count, g_start_time, now, phase,
                            h_sessions, h_signs>>


SignatureOutput(r) ==
    [kind |-> "signature", signature |-> r.signature,
     signature_len |-> r.signature_len, recovery_id |-> r.recovery_id]

\* Line 354: the message hash does not have the size of a 256-bit digest.
bad_hash_len_ignored(hash_len) == FALSE
bad_hash_len(hash_len) == hash_len # SR_MESSAGE_HASH_SIZE

\* Lines 401-402: the usage statistics of a key after a successful signature.
used_key_info_uncounted(info) == [info EXCEPT !.last_used_time = get_current_time]
used_key_info_recreated(info) ==
    [info EXCEPT !.last_used_time = get_current_time,
                 !.created_time = get_current_time,
                 !.usage_count = info.usage_count + 1]
used_key_info(info) ==
    [info EXCEPT !.last_used_time = get_current_time,
                 !.usage_count = info.usage_count + 1]

cmd_sign_message(param_types, key_id, key_id_len, message_hash, hash_len, out_size, tee) ==
    IF shape_mismatch(param_types, PT_SIGN_MESSAGE)
    THEN Return("sign_message", "TEE_ERROR_BAD_PARAMETERS", Untouched, <<>>,
                    <<"Invalid parameter types for sign_message">>)
    ELSE IF key_id_len = 0 \/ key_id_len >= SR_MAX_KEY_ID_SIZE
    THEN Return("sign_message", "TEE_ERROR_BAD_PARAMETERS", Untouched, <<>>,
                    <<"Invalid key_id length">>)
    ELSE IF bad_hash_len(hash_len)
    THEN Return("sign_message", "TEE_ERROR_BAD_PARAMETERS", Untouched, <<>>,
                    <<"Invalid message hash length">>)
    ELSE IF out_size < SizeofSignatureResult
    THEN Return("sign_message", "TEE_ERROR_SHORT_BUFFER", Untouched, <<>>,
                    <<"Output buffer too small for signature result">>)
    ELSE \E key_index \in {find_key_index(key_id)} :
    IF key_index < 0
    THEN Return("sign_message", "SR_ERROR_KEY_NOT_FOUND", Untouched, <<>>,
                    <<"Key not found">>)
    ELSE \E key_entry \in {g_key_storage[key_index]} :
    IF key_entry.info.status # SR_KEY_STATUS_ACTIVE
    THEN Return("sign_message", "TEE_ERROR_ACCESS_DENIED", Untouched, <<>>,
                    <<"Key is not active">>)
    ELSE \E sig \in {CASE key_entry.key_type = SR_KEY_TYPE_ECDSA_SECP256K1 ->
                            sign_message_ecdsa(key_entry, message_hash, tee)
                       [] key_entry.key_type = SR_KEY_TYPE_ED25519 ->
                            [res |-> "TEE_ERROR_NOT_IMPLEMENTED",
                             result |-> ZeroSignatureResult, calls |-> <<>>,
                             msgs |-> <<"Ed25519 signing not yet implemented">>]
                       [] OTHER ->
                            [res |-> "TEE_ERROR_NOT_SUPPORTED",
                             result |-> ZeroSignatureResult, calls |-> <<>>,
                             msgs |-> <<"Unsupported key type">>]} :
    IF sig.res # "TEE_SUCCESS"
    THEN Return("sign_message", sig.res, SignatureOutput(sig.result), sig.calls,
                sig.msgs)
    ELSE \E info1 \in {used_key_info(key_entry.info)} :
         /\ cmd' = "sign_message"
         /\ res' = "TEE_SUCCESS"
         /\ out' = SignatureOutput(sig.result)
         /\ tee_calls' = sig.calls
         /\ emsg' = <<>>
         /\ g_key_storage' = [g_key_storage EXCEPT ![key_index].info = info1]
         /\ g_keys' = publish_info(key_index, info1)
         /\ g_operation_count' = operation_counted
         /\ h_signs' = [h_signs EXCEPT ![key_index] = @ + 1]
         /\ UNCHANGED <<g_key_count, g_session_count, g_start_time, now, phase,
                        h_sessions, h_created>>

\* memcpy of public_key_len bytes of the stored public key into a zeroed result.
CopiedPublicKey_private(key_entry) == <<key_entry.private_key, key_entry.public_key[2]>>
CopiedPublicKey(key_entry) ==
    CASE key_entry.public_key_len >= SR_SECP256K1_PUBLIC_KEY_SIZE -> key_entry.public_key
      [] key_entry.public_key_len >= 32 -> <<key_entry.public_key[1], 0>>
      [] OTHER -> <<0, 0>>

cmd_get_public_key(param_types, key_id, key_id_len, out_size) ==
    IF shape_mismatch(param_types, PT_GET_PUBLIC_KEY)
    THEN Return("get_public_key", "TEE_ERROR_BAD_PARAMETERS", Untouched, <<>>,
                    <<"Invalid parameter types for get_public_key">>)
    ELSE IF key_id_len = 0 \/ key_id_len >= SR_MAX_KEY_ID_SIZE
    THEN Return("get_public_key", "TEE_ERROR_BAD_PARAMETERS", Untouched, <<>>,
                    <<"Invalid key_id length">>)
    ELSE IF out_size < SizeofPublicKeyResult
    THEN Return("get_public_key", "TEE_ERROR_SHORT_BUFFER", Untouched, <<>>,
                    <<"Output buffer too small for public key result">>)
    ELSE \E key_index \in {find_key_index(key_id)} :
    IF key_index < 0
    THEN Return("get_public_key", "SR_ERROR_KEY_NOT_FOUND", Untouched, <<>>,
                    <<"Key not found">>)
    ELSE \E key_entry \in {g_key_storage[key_index]} :
         /\ cmd' = "get_public_key"
         /\ res' = "TEE_SUCCESS"
         /\ out' = [kind |-> "public_key",
                    public_key |-> CopiedPublicKey(key_entry),
                    public_key_len |-> key_entry.public_key_len,
                    ethereum_address |-> key_entry.info.ethereum_address]
         /\ tee_calls' = <<>>
         /\ emsg' = <<>>
    /\ emsg' = <<>>
         /\ g_operation_count' = operation_counted
         /\ UNCHANGED <<g_keys, g_key_storage, g_key_count, g_session_count,
                        g_start_time, now, phase, h_sessions, h_created, h_signs>>

\* Lines 492-494: the keys array of a zeroed result after the memcpy of the
\* first g_key_count elements of g_keys.
listed_keys_reversed ==
    [i \in Slots |-> IF i < g_key_count THEN g_keys[g_key_count - 1 - i] ELSE ZeroInfo]
listed_keys == [i \in Slots |-> IF i < g_key_count THEN g_keys[i] ELSE ZeroInfo]

cmd_list_keys(param_types, out_size) ==
    IF shape_mismatch(param_types, PT_OUTPUT_ONLY)
    THEN Return("list_keys", "TEE_ERROR_BAD_PARAMETERS", Untouched, <<>>,
                    <<"Invalid parameter types for list_keys">>)
    ELSE IF out_size < SizeofKeyListResult
    THEN Return("list_keys", "TEE_ERROR_SHORT_BUFFER", Untouched, <<>>,
                    <<"Output buffer too small for key list result">>)
    ELSE /\ cmd' = "list_keys"
         /\ res' = "TEE_SUCCESS"
         /\ out' = [kind |-> "key_list",
                    key_count |-> g_key_count,
                    keys |-> listed_keys]
         /\ tee_calls' = <<>>
         /\ emsg' = <<>>
    /\ emsg' = <<>>
         /\ g_operation_count' = operation_counted
         /\ UNCHANGED <<g_keys, g_key_storage, g_key_count, g_session_count,
                        g_start_time, now, phase, h_sessions, h_created, h_signs>>

cmd_get_version(param_types, out_size) ==
    IF shape_mismatch(param_types, PT_OUTPUT_ONLY)
    THEN Return("get_version", "TEE_ERROR_BAD_PARAMETERS", Untouched, <<>>, <<>>)
    ELSE IF out_size < SizeofVersionInfo
    THEN Return("get_version", "TEE_ERROR_SHORT_BUFFER", Untouched, <<>>, <<>>)
    ELSE Return("get_version", "TEE_SUCCESS",
                [kind |-> "version", major |-> 1, minor |-> 0, patch |-> 0,
                 build_info |-> "SuperRelay TA v1.0.0"], <<>>, <<>>)

cmd_health_check(param_types, out_size) ==
    IF shape_mismatch(param_types, PT_OUTPUT_ONLY)
    THEN Return("health_check", "TEE_ERROR_BAD_PARAMETERS", Untouched, <<>>, <<>>)
    ELSE IF out_size < SizeofHealthResult
    THEN Return("health_check", "TEE_ERROR_SHORT_BUFFER", Untouched, <<>>, <<>>)
    ELSE Return("health_check", "TEE_SUCCESS",
                [kind |-> "health", status |-> SR_SUCCESS,
                 active_sessions |-> g_session_count,
                 total_operations |-> g_operation_count,
                 storage_usage |-> g_key_count * SizeofKeyEntry,
                 uptime |-> get_current_time - g_start_time], <<>>, <<>>)


(***************************************************************************)
(* TA entry points.                                                        *)
(***************************************************************************)
\* The state TA_CreateEntryPoint leaves.
Init ==
    /\ g_keys = [i \in Slots |-> ZeroInfo]
    /\ g_key_storage = [i \in Slots |-> ZeroEntry]
    /\ g_key_count = 0
    /\ g_session_count = 0
    /\ g_operation_count = 0
    /\ now = 0
    /\ g_start_time = now
    /\ phase = "Ready"
    /\ cmd = "none"
    /\ res = "TEE_SUCCESS"
    /\ out = Untouched
    /\ tee_calls = <<>>
    /\ emsg = <<>>
    /\ h_sessions = 0
    /\ h_created = <<>>
    /\ h_signs = [i \in Slots |-> 0]

\* Line 588: memset(g_key_storage, 0, sizeof(g_key_storage)).
cleared_key_storage_live_only ==
    [i \in Slots |-> IF i < g_key_count THEN ZeroEntry ELSE g_key_storage[i]]
cleared_key_storage == [i \in Slots |-> ZeroEntry]

TA_DestroyEntryPoint ==
    /\ phase = "Ready"
    /\ cmd = "none"
    /\ g_key_storage' = cleared_key_storage
    /\ g_keys' = [i \in Slots |-> ZeroInfo]
    /\ phase' = "Destroyed"
    /\ cmd' = "destroy"
    /\ res' = "TEE_SUCCESS"
    /\ out' = Untouched
    /\ tee_calls' = <<>>
    /\ emsg' = <<>>
    /\ UNCHANGED <<g_key_count, g_session_count, g_operation_count, g_start_time,
                   now, h_sessions, h_created, h_signs>>

TA_OpenSessionEntryPoint ==
    /\ phase = "Ready"
    /\ cmd = "none"
    /\ g_session_count < MaxSessions
    /\ g_session_count' = g_session_count + 1
    /\ h_sessions' = h_sessions + 1
    /\ cmd' = "open_session"
    /\ res' = "TEE_SUCCESS"
    /\ out' = Untouched
    /\ tee_calls' = <<>>
    /\ emsg' = <<>>
    /\ UNCHANGED <<g_keys, g_key_storage, g_key_count, g_operation_count,
                   g_start_time, now, phase, h_created, h_signs>>

\* Lines 611-612: the session count after a close.
closed_session_count_unguarded(n) == n - 1
closed_session_count(n) == IF n > 0 THEN n - 1 ELSE n

TA_CloseSessionEntryPoint ==
    /\ phase = "Ready"
    /\ cmd = "none"
    /\ g_session_count' = closed_session_count(g_session_count)
    /\ h_sessions' = IF h_sessions >= 1 THEN h_sessions - 1 ELSE 0
    /\ cmd' = "close_session"
    /\ res' = "TEE_SUCCESS"
    /\ out' = Untouched
    /\ tee_calls' = <<>>
    /\ emsg' = <<>>
    /\ UNCHANGED <<g_keys, g_key_storage, g_key_count, g_operation_count,
                   g_start_time, now, phase, h_created, h_signs>>

\* p: the contents of the four parameter slots and the provider's outcome.
\* Lines 645-646: the case labels of the commands that are declared and not
\* yet implemented.
unimplemented_command_import_only(cmd_id) == cmd_id = TA_SUPER_RELAY_CMD_IMPORT_KEY
unimplemented_command(cmd_id) ==
    cmd_id \in {TA_SUPER_RELAY_CMD_IMPORT_KEY, TA_SUPER_RELAY_CMD_DELETE_KEY}

TA_InvokeCommandEntryPoint(cmd_id, param_types, p) ==
    CASE cmd_id = TA_SUPER_RELAY_CMD_GENERATE_KEY ->
            cmd_generate_key(param_types, p.key_id, p.key_id_len, p.value_a,
                             p.out_size, p.tee)
      [] cmd_id = TA_SUPER_RELAY_CMD_SIGN_MESSAGE ->
            cmd_sign_message(param_types, p.key_id, p.key_id_len, p.message_hash,
                             p.hash_len, p.out_size, p.tee)
      [] cmd_id = TA_SUPER_RELAY_CMD_GET_PUBLIC_KEY ->
            cmd_get_public_key(param_types, p.key_id, p.key_id_len, p.out_size)
      [] cmd_id = TA_SUPER_RELAY_CMD_LIST_KEYS ->
            cmd_list_keys(param_types, p.out_size)
      [] cmd_id = TA_SUPER_RELAY_CMD_GET_VERSION ->
            cmd_get_version(param_types, p.out_size)
      [] cmd_id = TA_SUPER_RELAY_CMD_HEALTH_CHECK ->
            cmd_health_check(param_types, p.out_size)
      [] unimplemented_command(cmd_id) ->
            Return(IF cmd_id = TA_SUPER_RELAY_CMD_IMPORT_KEY THEN "import_key"
                   ELSE "delete_key",
                   "TEE_ERROR_NOT_IMPLEMENTED", Untouched, <<>>,
                   <<"Command not yet implemented">>)
      [] OTHER ->
            Return("unknown", "TEE_ERROR_BAD_PARAMETERS", Untouched, <<>>,
                    <<"Unknown command">>)

(***************************************************************************)
(* The environment: the clock and the caller's requests.                   *)
(***************************************************************************)
\* The system clock advances by a second.
Tick ==
    /\ phase = "Ready"
    /\ cmd = "none"
    /\ now < MaxTime
    /\ now' = now + 1
    /\ UNCHANGED <<g_keys, g_key_storage, g_key_count, g_session_count,
                   g_operation_count, g_start_time, phase, cmd, res, out, tee_calls, emsg,
                   h_sessions, h_created, h_signs>>

\* The caller takes the result of the entry point that returned; the
\* application waits for the next call.
ReturnToCaller ==
    /\ cmd # "none"
    /\ cmd' = "none"
    /\ res' = "TEE_SUCCESS"
    /\ out' = Untouched
    /\ tee_calls' = <<>>
    /\ emsg' = <<>>
    /\ UNCHANGED <<g_keys, g_key_storage, g_key_count, g_session_count,
                   g_operation_count, g_start_time, now, phase,
                   h_sessions, h_created, h_signs>>

\* The application accepts a command: it is created and idle.
Idle == phase = "Ready" /\ cmd = "none"

\* The caller invokes generate_key with request r.
GenerateKeyWith(r) ==
    /\ Idle
    /\ g_operation_count < MaxOps
    /\ TA_InvokeCommandEntryPoint(TA_SUPER_RELAY_CMD_GENERATE_KEY, r.param_types, r)

GenerateKey == \E r \in GenRequests : GenerateKeyWith(r)

\* The caller invokes sign_message with request r.
SignMessageWith(r) ==
    /\ Idle
    /\ g_operation_count < MaxOps
    /\ TA_InvokeCommandEntryPoint(TA_SUPER_RELAY_CMD_SIGN_MESSAGE, r.param_types, r)

SignMessage == \E r \in SignRequests : SignMessageWith(r)

\* The caller invokes get_public_key with request r.
GetPublicKeyWith(r) ==
    /\ Idle
    /\ g_operation_count < MaxOps
    /\ TA_InvokeCommandEntryPoint(TA_SUPER_RELAY_CMD_GET_PUBLIC_KEY, r.param_types, r)

GetPublicKey == \E r \in GetPublicKeyRequests : GetPublicKeyWith(r)

ListKeys ==
    /\ Idle
    /\ g_operation_count < MaxOps
    /\ \E param_types \in ParamTypes, out_size \in OutSizes(SizeofKeyListResult) :
            TA_InvokeCommandEntryPoint(TA_SUPER_RELAY_CMD_LIST_KEYS, param_types,
                                       [out_size |-> out_size])

GetVersion ==
    /\ Idle
    /\ \E param_types \in ParamTypes, out_size \in OutSizes(SizeofVersionInfo) :
            TA_InvokeCommandEntryPoint(TA_SUPER_RELAY_CMD_GET_VERSION, param_types,
                                       [out_size |-> out_size])

HealthCheck ==
    /\ Idle
    /\ \E param_types \in ParamTypes, out_size \in OutSizes(SizeofHealthResult) :
            TA_InvokeCommandEntryPoint(TA_SUPER_RELAY_CMD_HEALTH_CHECK, param_types,
                                       [out_size |-> out_size])

\* import_key, delete_key and a command id outside the defined eight.
OtherCommandIds == {TA_SUPER_RELAY_CMD_IMPORT_KEY, TA_SUPER_RELAY_CMD_DELETE_KEY,
                    TA_SUPER_RELAY_CMD_HEALTH_CHECK + 1}

OtherCommandWith(cmd_id, param_types) ==
    /\ Idle
    /\ TA_InvokeCommandEntryPoint(cmd_id, param_types, [out_size |-> 0])

OtherCommand ==
    \E cmd_id \in OtherCommandIds, param_types \in ParamTypes :
        OtherCommandWith(cmd_id, param_types)

Next ==
    \/ GenerateKey
    \/ SignMessage
    \/ GetPublicKey
    \/ ListKeys
    \/ GetVersion
    \/ HealthCheck
    \/ OtherCommand
    \/ TA_OpenSessionEntryPoint
    \/ TA_CloseSessionEntryPoint
    \/ TA_DestroyEntryPoint
    \/ Tick
    \/ ReturnToCaller

Spec == Init /\ [][Next]_vars

(***************************************************************************)
(* Properties of the key store and the commands.                           *)
(***************************************************************************)
\* The slots below g_key_count: the live records.
LiveSlots == 0..(g_key_count - 1)

\* The key_id a request carries: the bytes of its memref, as many as the
\* declared size, read as an identifier.
RequestKeyId(r) == StrN(r.key_id, r.key_id_len)

\* Some live record has key_id id.
IsLiveKeyId(id) == \E i \in LiveSlots : g_key_storage[i].key_id = id

\* The declared size of the key_id memref is accepted.
ValidKeyIdLen(r) == r.key_id_len \in 1..(SR_MAX_KEY_ID_SIZE - 1)

\* The caller memory behind the declared size of the key_id memref reads NUL.
TerminatedKeyId(r) == StrN(r.key_id, SR_MAX_KEY_ID_SIZE) = RequestKeyId(r)

\* The two tables and the record count.
store == <<g_keys, g_key_storage, g_key_count>>

\* C1: while the application is created, no two live records (slots below
\* g_key_count) hold the same key_id, whatever key_id buffers and declared
\* lengths the generate_key requests carried.
C1_UniqueKeyIds ==
    phase = "Ready" =>
        \A i, j \in LiveSlots :
            i # j => g_key_storage[i].key_id # g_key_storage[j].key_id

\* C2: a generate_key request that is otherwise acceptable (shape, declared
\* length, key type, store not full) and whose key_id is the key_id of a
\* live record returns SR_ERROR_KEY_ALREADY_EXISTS and leaves the record
\* count and both tables as they were.
C2_DuplicateRejected ==
    [][\A r \in GenRequests :
          (/\ cmd' = "generate_key"
           /\ r.param_types = PT_GENERATE_KEY
           /\ ValidKeyIdLen(r)
           /\ r.value_a < SR_KEY_TYPE_MAX
           /\ g_key_count < SR_MAX_KEYS
           /\ IsLiveKeyId(RequestKeyId(r))
           /\ GenerateKeyWith(r))
          => (res' = "SR_ERROR_KEY_ALREADY_EXISTS" /\ UNCHANGED store)]_vars

\* The generate_key requests of the right parameter shape.
ShapedGenRequests == {r \in GenRequests : r.param_types = PT_GENERATE_KEY}

\* C3: g_key_count never exceeds the capacity SR_MAX_KEYS; every generate_key
\* of the right shape issued while the store holds SR_MAX_KEYS records
\* returns TEE_ERROR_STORAGE_NO_SPACE and leaves the count and every record
\* of both tables unchanged; the count changes only by one, on a
\* generate_key that succeeds.
C3_CapacityBound ==
    /\ [](g_key_count <= SR_MAX_KEYS)
    /\ [][(cmd' = "generate_key" /\ g_key_count = SR_MAX_KEYS) =>
            \A r \in ShapedGenRequests :
                GenerateKeyWith(r) =>
                    (res' = "TEE_ERROR_STORAGE_NO_SPACE" /\ UNCHANGED store)]_vars
    /\ [][g_key_count' # g_key_count =>
            /\ cmd' = "generate_key"
            /\ res' = "TEE_SUCCESS"
            /\ g_key_count' = g_key_count + 1]_vars

\* C3 witness: the store was filled to its capacity with records of distinct
\* key_ids and a further generate_key has just been refused for lack of space.
C3_FullStoreRefuses ==
    /\ cmd = "generate_key"
    /\ res = "TEE_ERROR_STORAGE_NO_SPACE"
    /\ g_key_count = SR_MAX_KEYS
    /\ \A i, j \in LiveSlots : i # j => g_keys[i].key_id # g_keys[j].key_id

\* C4: when generate_key has returned success, the address in its output
\* and in the new record (in both tables) is bytes 12..31 of the digest of
\* the record's public key, also when the digest operation failed.
C4_AddressIsDigestTail ==
    (cmd = "generate_key" /\ res = "TEE_SUCCESS") =>
        /\ out.address = SHA256(g_key_storage[g_key_count - 1].public_key)[2]
        /\ g_key_storage[g_key_count - 1].info.ethereum_address = out.address
        /\ g_keys[g_key_count - 1].ethereum_address = out.address

\* C5: a well-formed get_public_key for a key_id that an earlier generate_key
\* was given, and for which it returned address A, succeeds, returns the
\* address A, and returns a public key whose digest has A as bytes 12..31.
C5_RoundTrip ==
    [][\A r \in GetPublicKeyRequests :
          (/\ cmd' = "get_public_key"
           /\ r.param_types = PT_GET_PUBLIC_KEY
           /\ ValidKeyIdLen(r)
           /\ r.out_size >= SizeofPublicKeyResult
           /\ GetPublicKeyWith(r))
          => \A k \in 1..Len(h_created) :
                h_created[k].key_id = RequestKeyId(r) =>
                    /\ res' = "TEE_SUCCESS"
                    /\ out'.ethereum_address = h_created[k].address
                    /\ SHA256(out'.public_key)[2] = h_created[k].address]_vars

\* C6: a well-formed sign_message whose key_id is the key_id of no live
\* record returns SR_ERROR_KEY_NOT_FOUND, one whose key_id is that of a live
\* record that is not Active returns TEE_ERROR_ACCESS_DENIED, and both leave
\* every record (usage_count, last_used_time) and g_operation_count unchanged.
C6_SignRefusals ==
    [][\A r \in SignRequests :
          (/\ cmd' = "sign_message"
           /\ r.param_types = PT_SIGN_MESSAGE
           /\ ValidKeyIdLen(r)
           /\ r.hash_len = SR_MESSAGE_HASH_SIZE
           /\ r.out_size >= SizeofSignatureResult
           /\ SignMessageWith(r))
          => /\ ~IsLiveKeyId(RequestKeyId(r)) =>
                    /\ res' = "SR_ERROR_KEY_NOT_FOUND"
                    /\ UNCHANGED <<g_keys, g_key_storage, g_operation_count>>
             /\ (\E i \in LiveSlots :
                    /\ g_key_storage[i].key_id = RequestKeyId(r)
                    /\ g_key_storage[i].info.status # SR_KEY_STATUS_ACTIVE) =>
                    /\ res' = "TEE_ERROR_ACCESS_DENIED"
                    /\ UNCHANGED <<g_keys, g_key_storage, g_operation_count>>]_vars

\* C7: the usage_count of every live record, in both tables, is the number
\* of successful sign_message calls made with its key, and from one state
\* to the next its last_used_time does not decrease.
C7_UsageCount ==
    /\ [](phase = "Ready" =>
            \A i \in LiveSlots :
                /\ g_key_storage[i].info.usage_count = h_signs[i]
                /\ g_keys[i].usage_count = h_signs[i])
    /\ [][phase' = "Ready" =>
            \A i \in LiveSlots :
                /\ g_key_storage'[i].info.last_used_time
                        >= g_key_storage[i].info.last_used_time
                /\ g_keys'[i].last_used_time >= g_keys[i].last_used_time]_vars

\* C7 witness: the second successful sign_message with a key has returned,
\* later than the key was created.
C7_SignedTwice ==
    /\ cmd = "sign_message"
    /\ res = "TEE_SUCCESS"
    /\ \E i \in LiveSlots :
            /\ h_signs[i] = 2
            /\ g_keys[i].usage_count = 2
            /\ g_keys[i].last_used_time > g_keys[i].created_time

\* The sign_message requests whose message_hash memref has another size
\* than SR_MESSAGE_HASH_SIZE.
BadHashRequests == {r \in SignRequests : r.hash_len # SR_MESSAGE_HASH_SIZE}

\* C8: a sign_message whose message_hash memref is not SR_MESSAGE_HASH_SIZE
\* bytes long returns TEE_ERROR_BAD_PARAMETERS, invokes no operation of the
\* primitive provider, writes no output and changes no global.
C8_BadHashLength ==
    [][cmd' = "sign_message" =>
        \A r \in BadHashRequests :
            SignMessageWith(r) =>
                /\ res' = "TEE_ERROR_BAD_PARAMETERS"
                /\ tee_calls' = <<>>
                /\ out' = Untouched
                /\ UNCHANGED <<g_keys, g_key_storage, g_key_count, g_session_count,
                               g_operation_count, g_start_time>>]_vars

\* C8 witness: a sign_message has been refused for the length of its message
\* hash while a key was stored, without a call to the primitive provider.
C8_HashLengthRefused ==
    /\ cmd = "sign_message"
    /\ res = "TEE_ERROR_BAD_PARAMETERS"
    /\ emsg = <<"Invalid message hash length">>
    /\ tee_calls = <<>>
    /\ g_key_count >= 1

\* C9: a successful list_keys returns as key_count the number of successful
\* generate_key calls, at most SR_MAX_KEYS, and the records in the order of
\* those calls; no live record is removed or moved to another slot.
C9_ListInCreationOrder ==
    /\ []((cmd = "list_keys" /\ res = "TEE_SUCCESS") =>
            /\ out.key_count = Len(h_created)
            /\ out.key_count <= SR_MAX_KEYS
            /\ \A i \in 0..(out.key_count - 1) :
                    /\ out.keys[i].key_id = h_created[i + 1].key_id
                    /\ out.keys[i].ethereum_address = h_created[i + 1].address)
    /\ [][phase' = "Ready" =>
            /\ g_key_count' >= g_key_count
            /\ \A i \in LiveSlots :
                    /\ g_keys'[i].key_id = g_keys[i].key_id
                    /\ g_keys'[i].created_time = g_keys[i].created_time
                    /\ g_keys'[i].ethereum_address = g_keys[i].ethereum_address]_vars

\* C9 witness: list_keys has returned two records with different key_ids.
C9_ListedTwo ==
    /\ cmd = "list_keys"
    /\ res = "TEE_SUCCESS"
    /\ out.key_count = 2
    /\ out.keys[0].key_id # out.keys[1].key_id
    /\ out.keys[0].key_id = h_created[1].key_id

\* C10: g_session_count is the number of session opens minus the number of
\* closes, a close at zero leaving it at zero; it is never negative, and a
\* successful health_check reports it as active_sessions.
C10_ActiveSessions ==
    /\ g_session_count = h_sessions
    /\ g_session_count >= 0
    /\ (cmd = "health_check" /\ res = "TEE_SUCCESS") =>
            (out.active_sessions = h_sessions /\ out.active_sessions >= 0)

\* C10 witness: health_check has reported an open session.
C10_SessionReported ==
    /\ cmd = "health_check"
    /\ res = "TEE_SUCCESS"
    /\ out.active_sessions = 1
    /\ h_sessions = 1

\* The sr_public_key_result_t made of the public fields of live record i.
PublicKeyResultOf(i) ==
    [kind |-> "public_key",
     public_key |-> g_key_storage[i].public_key,
     public_key_len |-> g_key_storage[i].public_key_len,
     ethereum_address |-> g_keys[i].ethereum_address]

\* C11: no command writes private key bytes to its output: what generate_key,
\* get_public_key, list_keys, get_version and health_check leave in the
\* output is a function of the public fields of the tables (public key, public
\* metadata, counters) and of constants, so it is the same for any stored
\* private scalars; the private scalar enters only the signature of a
\* successful sign_message.
C11_NoSecretInOutput ==
    [][/\ cmd' = "generate_key" =>
            \/ out' = Untouched
            \/ out' = [kind |-> "address",
                       address |-> g_keys'[g_key_count' - 1].ethereum_address,
                       size |-> SR_ETHEREUM_ADDRESS_SIZE]
       /\ cmd' = "get_public_key" =>
            \/ out' = Untouched
            \/ \E i \in LiveSlots : out' = PublicKeyResultOf(i)
       /\ cmd' = "list_keys" =>
            \/ out' = Untouched
            \/ out' = [kind |-> "key_list", key_count |-> g_key_count,
                       keys |-> [i \in Slots |->
                                    IF i < g_key_count THEN g_keys[i] ELSE ZeroInfo]]
       /\ cmd' = "get_version" =>
            \/ out' = Untouched
            \/ out' = [kind |-> "version", major |-> 1, minor |-> 0, patch |-> 0,
                       build_info |-> "SuperRelay TA v1.0.0"]
       /\ cmd' = "health_check" =>
            \/ out' = Untouched
            \/ out' = [kind |-> "health", status |-> SR_SUCCESS,
                       active_sessions |-> g_session_count,
                       total_operations |-> g_operation_count,
                       storage_usage |-> g_key_count * SizeofKeyEntry,
                       uptime |-> now - g_start_time]
       /\ cmd' \in {"import_key", "delete_key", "unknown"} => out' = Untouched
       /\ cmd' = "sign_message" =>
            \/ out' = Untouched
            \/ out' = SignatureOutput(ZeroSignatureResult)
            \/ \E i \in LiveSlots, h \in MsgHashes :
                    out' = [kind |-> "signature",
                            signature |-> ECDSASign(g_key_storage[i].private_key, h),
                            signature_len |-> SR_SECP256K1_SIGNATURE_SIZE,
                            recovery_id |-> 0]]_vars

\* C11 witness: get_public_key has returned the public key and the address
\* of a record that holds a private scalar.
C11_PublicKeyReturned ==
    /\ cmd = "get_public_key"
    /\ res = "TEE_SUCCESS"
    /\ \E i \in LiveSlots :
            /\ out = PublicKeyResultOf(i)
            /\ g_key_storage[i].private_key # 0
            /\ g_key_storage[i].private_key_len = SR_SECP256K1_PRIVATE_KEY_SIZE

\* C12: between creation and teardown the public-metadata entry of every
\* live slot equals the info field of the full record of the same slot, field
\* by field.
C12_TablesInLockStep ==
    phase = "Ready" =>
        \A i \in LiveSlots :
            /\ g_keys[i] = g_key_storage[i].info
            /\ g_keys[i].key_id = g_key_storage[i].key_id

\* C12 witness: a sign_message has updated the statistics of a record that
\* a generate_key created, and both tables show them.
C12_BothUpdated ==
    /\ cmd = "sign_message"
    /\ res = "TEE_SUCCESS"
    /\ \E i \in LiveSlots :
            /\ g_keys[i].usage_count = 1
            /\ g_key_storage[i].info.usage_count = 1
            /\ g_keys[i] = g_key_storage[i].info

\* The commands that work on the key store.
KeyCommands == {"generate_key", "sign_message", "get_public_key", "list_keys"}

\* The successful sign_message calls made with the keys of slots 0..(n - 1).
RECURSIVE SignsBelow(_)
SignsBelow(n) == IF n = 0 THEN 0 ELSE SignsBelow(n - 1) + h_signs[n - 1]

\* C13: on every step g_operation_count grows by exactly one if the step is
\* a generate_key, sign_message, get_public_key or list_keys that returns
\* TEE_SUCCESS, and is unchanged otherwise (failing commands, get_version,
\* health_check, import_key, delete_key, unknown commands, sessions); a
\* successful health_check reports it as total_operations; it is never less
\* than the successful generate_key and sign_message calls counted so far.
C13_OperationCount ==
    /\ [][g_operation_count' =
            IF cmd' \in KeyCommands /\ res' = "TEE_SUCCESS"
            THEN g_operation_count + 1
            ELSE g_operation_count]_vars
    /\ []((cmd = "health_check" /\ res = "TEE_SUCCESS") =>
            out.total_operations = g_operation_count)
    /\ [](g_operation_count >= Len(h_created) + SignsBelow(SR_MAX_KEYS))

\* C13 witness: health_check reports the operations of a store in which a
\* key was generated and used to sign.
C13_OperationsReported ==
    /\ cmd = "health_check"
    /\ res = "TEE_SUCCESS"
    /\ out.total_operations >= 2
    /\ Len(h_created) >= 1
    /\ \E i \in LiveSlots : h_signs[i] >= 1

\* C14: import_key and delete_key always return TEE_ERROR_NOT_IMPLEMENTED and
\* a command id outside the defined eight returns TEE_ERROR_BAD_PARAMETERS,
\* whatever the parameter shape; in each case nothing is written to the
\* output and the key store, the session count and the operation counter
\* are what they were.
C14_UnimplementedCommands ==
    Idle =>
        \A cmd_id \in OtherCommandIds, param_types \in ParamTypes :
            ~ENABLED (/\ OtherCommandWith(cmd_id, param_types)
                      /\ ~(/\ res' = IF cmd_id \in {TA_SUPER_RELAY_CMD_IMPORT_KEY,
                                                     TA_SUPER_RELAY_CMD_DELETE_KEY}
                                      THEN "TEE_ERROR_NOT_IMPLEMENTED"
                                      ELSE "TEE_ERROR_BAD_PARAMETERS"
                           /\ out' = Untouched
                           /\ UNCHANGED <<g_keys, g_key_storage, g_key_count,
                                          g_session_count, g_operation_count>>))

\* delete_key was refused as not implemented while a key is stored, a
\* session is open and an operation has been counted.
C14_DeleteRefused ==
    /\ cmd = "delete_key"
    /\ res = "TEE_ERROR_NOT_IMPLEMENTED"
    /\ g_key_count >= 1
    /\ g_session_count >= 1
    /\ g_operation_count >= 1
\* The requests whose parameter shape is not the one the command expects.
MisshapedGenRequests == {r \in GenRequests : r.param_types # PT_GENERATE_KEY}

MisshapedSignRequests == {r \in SignRequests : r.param_types # PT_SIGN_MESSAGE}

MisshapedGetRequests ==
    {r \in GetPublicKeyRequests : r.param_types # PT_GET_PUBLIC_KEY}

\* The step refuses the parameters and leaves the key state alone: nothing
\* written to the output, no provider call, both tables and the key count
\* as before.
ShapeRefused ==
    /\ res' = "TEE_ERROR_BAD_PARAMETERS"
    /\ out' = Untouched
    /\ tee_calls' = <<>>
    /\ UNCHANGED <<g_keys, g_key_storage, g_key_count, g_operation_count>>

\* Each of the six implemented commands refuses a request of another shape,
\* and reports the shape and nothing else, whatever the state of the store
\* and the other fields of the request: no such request has a step that is
\* not this refusal.
MisshapedRefusedByHandlers ==
    /\ \A r \in MisshapedGenRequests :
          ~ENABLED (/\ GenerateKeyWith(r)
                    /\ ~(/\ ShapeRefused
                         /\ emsg' = <<"Invalid parameter types for generate_key">>))
    /\ \A r \in MisshapedSignRequests :
          ~ENABLED (/\ SignMessageWith(r)
                    /\ ~(/\ ShapeRefused
                         /\ emsg' = <<"Invalid parameter types for sign_message">>))
    /\ \A r \in MisshapedGetRequests :
          ~ENABLED (/\ GetPublicKeyWith(r)
                    /\ ~(/\ ShapeRefused
                         /\ emsg' = <<"Invalid parameter types for get_public_key">>))
    /\ \A cmd_id \in {TA_SUPER_RELAY_CMD_LIST_KEYS, TA_SUPER_RELAY_CMD_GET_VERSION,
                       TA_SUPER_RELAY_CMD_HEALTH_CHECK},
          param_types \in ParamTypes \ {PT_OUTPUT_ONLY},
          out_size \in {0} :
            ~ENABLED (/\ Idle
                      /\ TA_InvokeCommandEntryPoint(cmd_id, param_types,
                                                    [out_size |-> out_size])
                      /\ ~ShapeRefused)

\* C15: generate_key, sign_message, get_public_key, list_keys, get_version
\* and health_check invoked with a parameter shape other than the expected
\* one fail with TEE_ERROR_BAD_PARAMETERS and leave the key state unchanged;
\* the shape is checked first, before capacity, length and lookup.
C15_ShapeCheckedFirst == Idle => MisshapedRefusedByHandlers

\* generate_key of another shape, with a declared length that would be
\* refused, was refused for its shape while the store is full.
C15_ShapeBeforeCapacity ==
    /\ cmd = "generate_key"
    /\ res = "TEE_ERROR_BAD_PARAMETERS"
    /\ emsg = <<"Invalid parameter types for generate_key">>
    /\ g_key_count = SR_MAX_KEYS

\* C15 as stated, for every command id: import_key and delete_key, which
\* take a key_id buffer, invoked with the shape that has no input at all
\* fail with TEE_ERROR_BAD_PARAMETERS as the six other commands do.
C15_EveryCommandId ==
    Idle =>
        /\ MisshapedRefusedByHandlers
        /\ \A cmd_id \in {TA_SUPER_RELAY_CMD_IMPORT_KEY,
                           TA_SUPER_RELAY_CMD_DELETE_KEY} :
              ~ENABLED (OtherCommandWith(cmd_id, PT_OUTPUT_ONLY) /\ ~ShapeRefused)

\* C16: a generate_key that fails, for whatever reason, leaves the key count
\* and every slot of the full-record table, the slot at index g_key_count
\* included, as they were before the call.
C16_FailureLeavesNothing ==
    [][(cmd' = "generate_key" /\ res' # "TEE_SUCCESS") =>
            UNCHANGED <<g_key_count, g_key_storage>>]_vars
\* The requests during which an operation of the provider fails.
FailedGenRequests ==
    {r \in GenRequests : r.tee.fail # "none" \/ ~r.tee.digest_ok}

FailedSignRequests == {r \in SignRequests : r.tee.fail # "none"}

\* C17: when an operation of the provider fails during generate_key or
\* sign_message, the command does not report success, returns the code of
\* the provider, creates no record and updates no usage statistics.
C17_ProviderFailureAborts ==
    [][/\ cmd' = "generate_key" =>
            \A r \in FailedGenRequests :
                (GenerateKeyWith(r) /\ tee_calls' # <<>>) =>
                    /\ res' # "TEE_SUCCESS"
                    /\ r.tee.fail # "none" => res' = r.tee.err
                    /\ UNCHANGED <<g_keys, g_key_count, g_operation_count>>
       /\ cmd' = "sign_message" =>
            \A r \in FailedSignRequests :
                (SignMessageWith(r) /\ tee_calls' # <<>>) =>
                    /\ res' = r.tee.err
                    /\ UNCHANGED <<g_keys, g_key_storage, g_key_count,
                                   g_operation_count>>]_vars
\* C18: after TA_DestroyEntryPoint, from whatever state it was called in,
\* every slot of g_key_storage, live or not, has all-zero private key,
\* public key and metadata, and every slot of g_keys is zero.
C18_TeardownClears ==
    phase = "Destroyed" =>
        \A i \in Slots :
            /\ g_key_storage[i].private_key = 0
            /\ g_key_storage[i].public_key = <<0, 0>>
            /\ g_key_storage[i] = ZeroEntry
            /\ g_keys[i] = ZeroInfo

\* The application was destroyed while it held a key, with a slot above the
\* live ones.
C18_DestroyedWithKeys ==
    /\ phase = "Destroyed"
    /\ cmd = "destroy"
    /\ g_key_count >= 1
    /\ g_key_count < SR_MAX_KEYS
    /\ Len(h_created) = g_key_count
\* The commands that write a result to an output buffer.
OutputCommands == KeyCommands \cup {"get_version", "health_check"}

\* C19: a command that fails with TEE_ERROR_SHORT_BUFFER has written nothing
\* to the output buffer, has changed no state and has called no operation
\* of the provider before finding the buffer too small.
C19_ShortBufferFirst ==
    [][(cmd' \in OutputCommands /\ res' = "TEE_ERROR_SHORT_BUFFER") =>
            /\ out' = Untouched
            /\ tee_calls' = <<>>
            /\ UNCHANGED <<g_keys, g_key_storage, g_key_count, g_session_count,
                           g_operation_count>>]_vars
\* Metadata with the usage statistics of old in place of its own.
WithStatisticsOf(info, old) ==
    [info EXCEPT !.usage_count = old.usage_count,
                 !.last_used_time = old.last_used_time]

\* C20: while the application is not torn down, a live record stays live in
\* its slot with the same key_id, key_type, status, private and public key
\* bytes, ethereum_address and created_time, in both tables; its
\* usage_count and last_used_time change only in a successful sign_message.
C20_LiveRecordsImmutable ==
    [][phase' = "Ready" =>
          /\ g_key_count' >= g_key_count
          /\ \A i \in LiveSlots :
                /\ g_key_storage'[i] =
                      [g_key_storage[i] EXCEPT
                          !.info = WithStatisticsOf(g_key_storage[i].info,
                                                    g_key_storage'[i].info)]
                /\ g_keys'[i] = WithStatisticsOf(g_keys[i], g_keys'[i])
                /\ (\/ g_key_storage'[i].info # g_key_storage[i].info
                    \/ g_keys'[i] # g_keys[i])
                        => cmd' = "sign_message" /\ res' = "TEE_SUCCESS"]_vars

\* A record of a full store was used for a signature later than it was
\* created: its statistics moved and the rest of it did not.
C20_UsedAfterCreation ==
    /\ cmd = "sign_message"
    /\ res = "TEE_SUCCESS"
    /\ g_key_count = SR_MAX_KEYS
    /\ \E i \in LiveSlots :
          /\ g_key_storage[i].info.usage_count >= 1
          /\ g_key_storage[i].info.last_used_time > g_key_storage[i].info.created_time
          /\ g_key_storage[i].private_key = FreshScalar(i)
\* The commands that only read the key store.
ReadOnlyCommands == {"get_public_key", "list_keys", "get_version", "health_check"}

\* The get_public_key requests that pass the shape, length and output size
\* checks.
LookupRequests ==
    {r \in GetPublicKeyRequests :
        /\ r.param_types = PT_GET_PUBLIC_KEY
        /\ ValidKeyIdLen(r)
        /\ r.out_size >= SizeofPublicKeyResult}

\* C21: get_public_key, list_keys, get_version and health_check leave the key
\* count, both tables and the session count as they were, whether they
\* succeed or fail; get_public_key for a key_id that no live record has
\* returns SR_ERROR_KEY_NOT_FOUND; health_check reports storage_usage equal
\* to the key count times the size of a full record.
C21_ReadOnlyCommands ==
    /\ [][cmd' \in ReadOnlyCommands =>
            UNCHANGED <<g_keys, g_key_storage, g_key_count, g_session_count>>]_vars
    /\ []((cmd = "health_check" /\ res = "TEE_SUCCESS") =>
            out.storage_usage = g_key_count * SizeofKeyEntry)
    /\ [](Idle =>
            \A r \in LookupRequests :
                IsLiveKeyId(RequestKeyId(r))
                \/ ~ENABLED (/\ GetPublicKeyWith(r)
                             /\ res' # "SR_ERROR_KEY_NOT_FOUND"))
\* The sign_message requests that pass the shape, length and output size
\* checks.
SigningRequests ==
    {r \in SignRequests :
        /\ r.param_types = PT_SIGN_MESSAGE
        /\ ValidKeyIdLen(r)
        /\ r.hash_len = SR_MESSAGE_HASH_SIZE
        /\ r.out_size >= SizeofSignatureResult}

\* Metadata after one more use at the current time.
UsedNow(info) ==
    [info EXCEPT !.usage_count = info.usage_count + 1,
                 !.last_used_time = get_current_time]

\* The step changes the usage statistics of the first live record whose
\* key_id is id, in both tables, and the operation counter, and nothing else
\* of the key store and the counters; its result carries recovery_id 0.
SignEffect(id) ==
    /\ \E i \in LiveSlots :
          /\ g_key_storage[i].key_id = id
          /\ \A j \in 0..(i - 1) : g_key_storage[j].key_id # id
          /\ g_key_storage' =
                [g_key_storage EXCEPT ![i].info = UsedNow(g_key_storage[i].info)]
          /\ g_keys' = [g_keys EXCEPT ![i] = UsedNow(g_keys[i])]
    /\ g_operation_count' = g_operation_count + 1
    /\ UNCHANGED <<g_key_count, g_session_count>>
    /\ out'.recovery_id = 0

\* C22: a successful sign_message(id, hash) changes exactly the usage_count
\* (+1) and last_used_time (the current time) of the first live record whose
\* key_id is id, in both tables, and the operation counter (+1); the key
\* count, the session count and every other record are unchanged, and the
\* result carries recovery_id = 0.
C22_SignChangesOnlyStatistics ==
    Idle =>
        \A r \in SigningRequests :
            ~ENABLED (/\ SignMessageWith(r)
                      /\ res' = "TEE_SUCCESS"
                      /\ ~SignEffect(RequestKeyId(r)))
\* C23: every live record has a key_id that is not the empty string and has
\* at most SR_MAX_KEY_ID_SIZE - 1 bytes, in both tables, whatever key_id
\* buffers and declared lengths the generate_key requests carried.
C23_KeyIdNotEmpty ==
    phase = "Ready" =>
        \A i \in LiveSlots :
            /\ Len(g_key_storage[i].key_id) \in 1..(SR_MAX_KEY_ID_SIZE - 1)
            /\ Len(g_keys[i].key_id) \in 1..(SR_MAX_KEY_ID_SIZE - 1)
\* The generate_key requests for an Ed25519 key that pass the shape and
\* length checks.
Ed25519Requests ==
    {r \in ShapedGenRequests : ValidKeyIdLen(r) /\ r.value_a = SR_KEY_TYPE_ED25519}

\* The results of sign_message that come from the status and the key type
\* of the record, and the traces of those branches.
KeyStateRefusals ==
    {"TEE_ERROR_ACCESS_DENIED", "TEE_ERROR_NOT_IMPLEMENTED", "TEE_ERROR_NOT_SUPPORTED"}

KeyStateTraces ==
    {"Key is not active", "Ed25519 signing not yet implemented", "Unsupported key type"}

OrderRequests ==
    [param_types : {PT_GENERATE_KEY}, key_id : {GoodKeyId},
     key_id_len : KeyIdLens, value_a : KeyTypes,
     out_size : {SR_ETHEREUM_ADDRESS_SIZE}, tee : GenWorks]

\* What the first failing check of lines 233-252 answers to request r: the
\* result and the trace, with no provider call, nothing written to the
\* output and the store as it was.
RefusedWith(code, msg) ==
    /\ res' = code
    /\ emsg' = <<msg>>
    /\ tee_calls' = <<>>
    /\ out' = Untouched
    /\ UNCHANGED store

AnsweredInOrder(r) ==
    IF g_key_count >= SR_MAX_KEYS
    THEN RefusedWith("TEE_ERROR_STORAGE_NO_SPACE", "Maximum number of keys reached")
    ELSE IF ~ValidKeyIdLen(r)
    THEN RefusedWith("TEE_ERROR_BAD_PARAMETERS", "Invalid key_id length")
    ELSE IF r.value_a >= SR_KEY_TYPE_MAX
    THEN RefusedWith("TEE_ERROR_BAD_PARAMETERS", "Invalid key type")
    ELSE TRUE

\* C25: a correctly shaped generate_key is checked for store capacity, then
\* key_id length, then key type range, then duplicate key_id: on a full
\* store it returns TEE_ERROR_STORAGE_NO_SPACE even if its length is
\* invalid, its key type out of range or its key_id stored already; a key
\* type out of range is refused with TEE_ERROR_BAD_PARAMETERS before any
\* provider call and before the lookup.
C25_CheckOrder ==
    Idle =>
        \A r \in OrderRequests :
            ~ENABLED (GenerateKeyWith(r) /\ ~AnsweredInOrder(r))

\* A generate_key was refused for lack of space on a full store that holds
\* the key_id of the well-formed requests.
C25_FullStoreAnswersFirst ==
    /\ cmd = "generate_key"
    /\ res = "TEE_ERROR_STORAGE_NO_SPACE"
    /\ emsg = <<"Maximum number of keys reached">>
    /\ g_key_count = SR_MAX_KEYS
    /\ IsLiveKeyId(GoodKeyId)
====
